---- MODULE Spec2Model ----
(***************************************************************************)
(* A model of the PATRICIA (radix) tree of patricia.cpp.                   *)
(*                                                                         *)
(* A C string is a sequence of byte values (its NUL terminator left out),  *)
(* a node is the record [key, children] with children the ordered list of  *)
(* child nodes, and the tree is [root |-> node].  Nodes are values: the    *)
(* test cur_node == tree->root is an equality of values, which agrees with *)
(* the pointer test because only the root has the empty key.  Every        *)
(* allocation (malloc, list_create) is taken to succeed, and the list      *)
(* container of list.h is taken to do what its names say.                  *)
(***************************************************************************)
EXTENDS Integers, Sequences, FiniteSets, TLC

\* The keys: "a", "aa", "ab", "aabab", "/", "/b", "/a/" and "/a/b", over the
\* bytes 'a' (97), 'b' (98) and the delimiter '/' (47).
Keys ==
    { <<97>>, <<97, 97>>, <<97, 98>>, <<97, 97, 98, 97, 98>>,
      <<47>>, <<47, 98>>, <<47, 97, 47>>, <<47, 97, 47, 98>> }

\* The arguments the operations are called with: the keys and the empty string.
Inputs == Keys \cup {<<>>}

\* Add is called only while the tree has fewer than MaxNodes nodes below the root.
MaxNodes == 3

VARIABLES
    tree,       \* patricia_tree_t: [root |-> node]
    last,       \* the last call: [op, key, ret, out], out the caller's buffer
    before,     \* history: the tree as the last call found it
    keys,       \* history: the keys added with success and not removed since
                \* by a successful delete of the key or of a prefix of it
    deleted     \* history: TRUE once a delete has returned success

vars == <<tree, last, before, keys, deleted>>

-----------------------------------------------------------------------------
(* C strings *)

\* A null char pointer.
NullStr == <<-1>>

\* str[i] of a C string, i counted from 0; str[strlen(str)] is the terminator.
CharAt(str, i) == IF i < Len(str) THEN str[i + 1] ELSE 0

\* The byte written between the tokens of a result list.
Space == 32

\* The directory delimiter.
Delimiter == 47

\* TRUE iff p is a prefix of s.
IsPrefix(p, s) == Len(p) <= Len(s) /\ SubSeq(s, 1, Len(p)) = p

substring(str, begin, len) ==
    IF Len(str) = 0 \/ Len(str) < begin \/ Len(str) < begin + len
    THEN NullStr
    ELSE SubSeq(str, begin + 1, begin + len)

patricia_get_prefix_count(key1, key2) ==
    IF Len(key1) = 0 \/ Len(key2) = 0
    THEN 0
    ELSE LET len == IF Len(key1) > Len(key2) THEN Len(key2) ELSE Len(key1)
         IN  CHOOSE n \in 0..len :
                /\ \A i \in 1..n : key1[i] = key2[i]
                /\ n = len \/ key1[n + 1] # key2[n + 1]

\* A comparison that stops after the first byte.
strcmp_FirstByte(s1, s2) == CharAt(s1, 0) - CharAt(s2, 0)

\* strcmp of the C library: negative, zero or positive, by the first byte that differs.
strcmp(s1, s2) ==
    LET stop == {i \in 0..Len(s1) : CharAt(s1, i) # CharAt(s2, i) \/ CharAt(s1, i) = 0}
        d    == CHOOSE i \in stop : \A j \in stop : i <= j
    IN  CharAt(s1, d) - CharAt(s2, d)

-----------------------------------------------------------------------------
(* Nodes *)

\* A null node pointer.
NullNode == [key |-> NullStr, children |-> <<>>]

patricia_node_init(key, create_list) == [key |-> key, children |-> <<>>]

\* list_insert_before: elem placed before the i-th element of list.
list_insert_before(list, i, elem) ==
    SubSeq(list, 1, i - 1) \o <<elem>> \o SubSeq(list, i, Len(list))

\* list_remove: list without its i-th element.
list_remove(list, i) == SubSeq(list, 1, i - 1) \o SubSeq(list, i + 1, Len(list))

\* An insertion that always puts the child at the tail.
patricia_add_child_node_AtTail(parent, child) ==
    [parent EXCEPT !.children = Append(@, child)]

\* The parent with child added to its list of children.
patricia_add_child_node(parent, child) ==
    LET list  == parent.children
        lower == {i \in 1..Len(list) : strcmp(child.key, list[i].key) < 0}
    IN  IF list = <<>> \/ lower = {}
        THEN [parent EXCEPT !.children = Append(list, child)]
        ELSE LET i == CHOOSE i \in lower : \A j \in lower : i <= j
             IN  [parent EXCEPT !.children = list_insert_before(list, i, child)]

\* The condition of cases 1, 2 and 4 of the descent.
PassThrough(t, cur_node, key, prefix_len) ==
    \/ cur_node = t.root
    \/ prefix_len = 0
    \/ prefix_len > 0 /\ prefix_len < Len(key) /\ prefix_len >= Len(cur_node.key)

\* A scan that looks for the child whose whole key equals new_key.
MatchingChild_WholeKey(cur_node, new_key) ==
    LET list == cur_node.children
        hit  == {i \in 1..Len(list) : list[i].key = new_key}
    IN  IF hit = {} THEN 0 ELSE CHOOSE i \in hit : \A j \in hit : i <= j

\* The scan of the children: the index of the first child whose key starts
\* with the first byte of new_key, 0 when there is none.
MatchingChild(cur_node, new_key) ==
    LET list == cur_node.children
        hit  == {i \in 1..Len(list) : CharAt(list[i].key, 0) = CharAt(new_key, 0)}
    IN  IF hit = {} THEN 0 ELSE CHOOSE i \in hit : \A j \in hit : i <= j

RECURSIVE patricia_lookup_internal(_, _, _)
patricia_lookup_internal(t, cur_node, key) ==
    LET prefix_len == patricia_get_prefix_count(key, cur_node.key)
    IN  IF PassThrough(t, cur_node, key, prefix_len)
        THEN LET new_key == substring(key, prefix_len, Len(key) - prefix_len)
                 m       == MatchingChild(cur_node, new_key)
             IN  IF new_key = NullStr THEN 0
                 ELSE IF m = 0 THEN 0
                 ELSE patricia_lookup_internal(t, cur_node.children[m], new_key)
        ELSE IF prefix_len = Len(cur_node.key) THEN 1
        ELSE 0

patricia_lookup(t, key) == patricia_lookup_internal(t, t.root, key)

RECURSIVE patricia_lookup_node_internal(_, _, _)
patricia_lookup_node_internal(t, cur_node, key) ==
    LET prefix_len == patricia_get_prefix_count(key, cur_node.key)
    IN  IF PassThrough(t, cur_node, key, prefix_len)
        THEN LET new_key == substring(key, prefix_len, Len(key) - prefix_len)
                 m       == MatchingChild(cur_node, new_key)
             IN  IF new_key = NullStr THEN NullNode
                 ELSE IF m = 0 THEN NullNode
                 ELSE patricia_lookup_node_internal(t, cur_node.children[m], new_key)
        ELSE IF prefix_len = Len(cur_node.key) THEN cur_node
        ELSE NullNode

patricia_lookup_node(t, key) == patricia_lookup_node_internal(t, t.root, key)

-----------------------------------------------------------------------------
(* Deletion *)

\* The subtree of root is freed; the value model keeps nothing of it.
patricia_delete_keys(root) == 0

\* A removal that takes the child out and hands its children, under the
\* joined fragments, to cur_node.
DetachChild_KeepsFamily(cur_node, m) ==
    LET child  == cur_node.children[m]
        joined == [i \in 1..Len(child.children) |->
                      [child.children[i] EXCEPT !.key = child.key \o @]]
    IN  [cur_node EXCEPT !.children =
            SubSeq(@, 1, m - 1) \o joined \o SubSeq(@, m + 1, Len(@))]

\* A removal that joins cur_node with the only child it is left with.
DetachChild_Merges(cur_node, m) ==
    LET rest == list_remove(cur_node.children, m)
    IN  IF Len(rest) = 1 /\ cur_node.key # <<>>
        THEN [key |-> cur_node.key \o rest[1].key, children |-> rest[1].children]
        ELSE [cur_node EXCEPT !.children = rest]

\* cur_node after its m-th child is taken off its list; the subtree of the
\* child goes with it.
DetachChild(cur_node, m) == [cur_node EXCEPT !.children = list_remove(@, m)]

\* [ret, node]: the status, and cur_node as the call leaves it.
RECURSIVE patricia_delete_internal(_, _, _)
patricia_delete_internal(t, cur_node, key) ==
    LET prefix_len == patricia_get_prefix_count(key, cur_node.key)
        miss       == [ret |-> -1, node |-> cur_node]
    IN  IF PassThrough(t, cur_node, key, prefix_len)
        THEN LET new_key == substring(key, prefix_len, Len(key) - prefix_len)
                 m       == MatchingChild(cur_node, new_key)
             IN  IF new_key = NullStr THEN miss
                 ELSE IF m = 0 THEN miss
                 ELSE IF strcmp(cur_node.children[m].key, new_key) = 0
                 THEN [ret  |-> IF patricia_delete_keys(cur_node.children[m]) # 0
                                THEN -1 ELSE 0,
                       node |-> DetachChild(cur_node, m)]
                 ELSE LET r == patricia_delete_internal(t, cur_node.children[m], new_key)
                      IN  [ret  |-> r.ret,
                           node |-> [cur_node EXCEPT !.children[m] = r.node]]
        ELSE miss

\* [ret, tree]
patricia_delete(t, key) ==
    LET r == patricia_delete_internal(t, t.root, key)
    IN  [ret |-> r.ret, tree |-> [root |-> r.node]]

-----------------------------------------------------------------------------
(* Insertion *)

\* A split whose node for the old key starts with no children.
SplitDiverging_DropsChildren(cur_node, key, prefix_len) ==
    LET common_key == substring(key, 0, prefix_len)
        prev_key   == substring(cur_node.key, prefix_len, Len(cur_node.key) - prefix_len)
        next_key   == substring(key, prefix_len, Len(key) - prefix_len)
        prev_node  == patricia_node_init(prev_key, 1)
        next_node  == patricia_node_init(next_key, 1)
        emptied    == [key |-> common_key, children |-> <<>>]
    IN  patricia_add_child_node(patricia_add_child_node(emptied, prev_node), next_node)

\* Case 3: cur_node becomes the common prefix, over the rest of its old key
\* (with the old children) and the rest of the new key.
SplitDiverging(cur_node, key, prefix_len) ==
    LET common_key == substring(key, 0, prefix_len)
        prev_key   == substring(cur_node.key, prefix_len, Len(cur_node.key) - prefix_len)
        next_key   == substring(key, prefix_len, Len(key) - prefix_len)
        prev_node  == [patricia_node_init(prev_key, 0) EXCEPT !.children = cur_node.children]
        next_node  == patricia_node_init(next_key, 1)
        emptied    == [key |-> common_key, children |-> <<>>]
    IN  patricia_add_child_node(patricia_add_child_node(emptied, prev_node), next_node)

\* A split that does not look for the key that equals cur_node's key.
SplitPrefix_NoExactMatch(cur_node, key, prefix_len) ==
    LET common_key == substring(key, 0, prefix_len)
        next_key   == substring(cur_node.key, prefix_len, Len(cur_node.key) - prefix_len)
        next_node  == [patricia_node_init(next_key, 0) EXCEPT !.children = cur_node.children]
        emptied    == [key |-> common_key, children |-> <<>>]
    IN  patricia_add_child_node(emptied, next_node)

\* The key is a prefix of cur_node's key: cur_node keeps the key, over one
\* child with the rest of its old key and the old children.
SplitPrefix(cur_node, key, prefix_len) ==
    LET common_key == substring(key, 0, prefix_len)
        next_key   == substring(cur_node.key, prefix_len, Len(cur_node.key) - prefix_len)
        next_node  == [patricia_node_init(next_key, 0) EXCEPT !.children = cur_node.children]
        emptied    == [key |-> common_key, children |-> <<>>]
    IN  IF prefix_len = Len(cur_node.key) THEN cur_node
        ELSE patricia_add_child_node(emptied, next_node)

\* [ret, node]: the status, and cur_node as the call leaves it.
RECURSIVE patricia_add_internal(_, _, _)
patricia_add_internal(t, cur_node, key) ==
    LET prefix_len == patricia_get_prefix_count(key, cur_node.key)
    IN  IF PassThrough(t, cur_node, key, prefix_len)
        THEN LET new_key == substring(key, prefix_len, Len(key) - prefix_len)
                 m       == MatchingChild(cur_node, new_key)
             IN  IF new_key = NullStr THEN [ret |-> -1, node |-> cur_node]
                 ELSE IF m # 0
                 THEN LET r == patricia_add_internal(t, cur_node.children[m], new_key)
                      IN  [ret  |-> IF r.ret # 0 THEN -1 ELSE 0,
                           node |-> [cur_node EXCEPT !.children[m] = r.node]]
                 ELSE [ret  |-> 0,
                       node |-> patricia_add_child_node(cur_node,
                                                        patricia_node_init(new_key, 1))]
        ELSE IF prefix_len < Len(key)
        THEN [ret |-> 0, node |-> SplitDiverging(cur_node, key, prefix_len)]
        ELSE IF prefix_len = Len(key)
        THEN [ret |-> 0, node |-> SplitPrefix(cur_node, key, prefix_len)]
        ELSE [ret |-> 0, node |-> cur_node]

\* [ret, tree]
patricia_add(t, key) ==
    LET r == patricia_add_internal(t, t.root, key)
    IN  [ret |-> r.ret, tree |-> [root |-> r.node]]

\* The number of nodes below root.
RECURSIVE NodeCount(_)
NodeCount(root) ==
    LET RECURSIVE Sum(_)
        Sum(i) == IF i = 0 THEN 0 ELSE 1 + NodeCount(root.children[i]) + Sum(i - 1)
    IN  Sum(Len(root.children))

-----------------------------------------------------------------------------
(* Prefix enumeration *)

\* 1 iff str2 is found in str1 by the scan of the code: from each position the
\* scan reaches, str2 is matched byte by byte up to the next space; a mismatch
\* skips the byte after it.  str1 is a result list, empty or ending in a
\* space, so that the scan stays inside it.
is_substring(str1, str2) ==
    LET len1 == Len(str1)
        len2 == Len(str2)
        RECURSIVE Match(_, _, _)
        Match(i, j, count) ==
            IF i < len1 /\ CharAt(str1, i) # Space
            THEN IF CharAt(str1, i) = CharAt(str2, j)
                 THEN Match(i + 1, j + 1, count + 1)
                 ELSE [i |-> i + 1, count |-> count]
            ELSE [i |-> i, count |-> count]
        RECURSIVE Scan(_)
        Scan(i) ==
            IF i < len1
            THEN LET w == Match(i, 0, 0)
                 IN  IF w.count = len2 THEN 1 ELSE Scan(w.i + 1)
            ELSE 0
    IN  IF len1 < len2 THEN 0 ELSE Scan(0)

\* Children keys are never empty, so that key[len - 1] is a byte of the key.
patricia_key_has_delimiter(key) ==
    IF Len(key) > 0 /\ key[Len(key)] = Delimiter THEN 1 ELSE 0

\* The result list after prefix and res are offered as a token: appended,
\* with a space, unless is_substring finds them in the list.
EmitToken(res_list, prefix, res) ==
    IF is_substring(res_list, prefix \o res) = 0
    THEN res_list \o prefix \o res \o <<Space>>
    ELSE res_list

\* The result list the call leaves; res is restored by the call.
RECURSIVE patricia_lookup_prefix_partial_internal(_, _, _, _)
patricia_lookup_prefix_partial_internal(cur_node, res, res_list, prefix) ==
    LET list == cur_node.children
        RECURSIVE Walk(_, _)
        Walk(i, out) ==
            IF i > Len(list) THEN out
            ELSE LET child == list[i]
                     cat   == res \o child.key
                 IN  IF patricia_key_has_delimiter(child.key) = 1
                     THEN Walk(i + 1, EmitToken(out, prefix, SubSeq(cat, 1, Len(cat) - 1)))
                     ELSE Walk(i + 1,
                               patricia_lookup_prefix_partial_internal(child, cat, out, prefix))
        walked == Walk(1, res_list)
    IN  IF list = <<>> THEN EmitToken(walked, prefix, res) ELSE walked

\* [ret, out]
patricia_lookup_prefix_partial(t, prefix, res_list) ==
    LET prefix_node == patricia_lookup_node(t, prefix)
    IN  IF prefix_node = NullNode
        THEN [ret |-> -1, out |-> res_list]
        ELSE [ret |-> 0,
              out |-> patricia_lookup_prefix_partial_internal(prefix_node, <<>>,
                                                              res_list, prefix)]

\* A walk that restores res before it descends to the children.
RECURSIVE patricia_lookup_prefix_full_internal_StaleRes(_, _, _)
patricia_lookup_prefix_full_internal_StaleRes(cur_node, res, res_list) ==
    LET list == cur_node.children
        cat  == res \o cur_node.key
        RECURSIVE Walk(_, _)
        Walk(i, out) ==
            IF i > Len(list) THEN out
            ELSE Walk(i + 1, patricia_lookup_prefix_full_internal_StaleRes(list[i], res, out))
        walked == Walk(1, res_list)
    IN  IF list = <<>> THEN walked \o cat \o <<Space>> ELSE walked

\* The result list the call leaves; res is restored by the call.
RECURSIVE patricia_lookup_prefix_full_internal(_, _, _)
patricia_lookup_prefix_full_internal(cur_node, res, res_list) ==
    LET list == cur_node.children
        cat  == res \o cur_node.key
        RECURSIVE Walk(_, _)
        Walk(i, out) ==
            IF i > Len(list) THEN out
            ELSE Walk(i + 1, patricia_lookup_prefix_full_internal(list[i], cat, out))
        walked == Walk(1, res_list)
    IN  IF list = <<>> THEN walked \o cat \o <<Space>> ELSE walked

\* strstr of the C library, as the offset of the first occurrence of needle in
\* haystack; -1 for the null pointer when there is none.
strstr(haystack, needle) ==
    LET at == {i \in 0..(Len(haystack) - Len(needle)) :
                  SubSeq(haystack, i + 1, i + Len(needle)) = needle}
    IN  IF at = {} THEN -1 ELSE CHOOSE i \in at : \A j \in at : i <= j

\* [ret, out].  The key of the node found for prefix ends prefix, so that
\* strstr finds it.
patricia_lookup_prefix_full(t, prefix, buf) ==
    LET prefix_node == patricia_lookup_node(t, prefix)
        keylen      == strstr(prefix, prefix_node.key)
        res         == SubSeq(prefix, 1, keylen)
    IN  IF prefix_node = NullNode
        THEN [ret |-> -1, out |-> buf]
        ELSE [ret |-> 0, out |-> patricia_lookup_prefix_full_internal(prefix_node, res, buf)]

\* The count the call leaves.
RECURSIVE patricia_get_key_count(_, _)
patricia_get_key_count(root, count) ==
    LET list == root.children
        RECURSIVE Walk(_, _)
        Walk(i, c) ==
            IF i > Len(list) THEN c ELSE Walk(i + 1, patricia_get_key_count(list[i], c))
        walked == Walk(1, count)
    IN  IF list = <<>> THEN walked + 1 ELSE walked

\* The tokens of a result list: the runs of bytes the spaces end.
RECURSIVE Tokens(_)
Tokens(res_list) ==
    IF res_list = <<>> THEN <<>>
    ELSE LET sp == {i \in 1..Len(res_list) : res_list[i] = Space}
             e  == IF sp = {} THEN Len(res_list) + 1
                   ELSE CHOOSE i \in sp : \A j \in sp : i <= j
         IN  <<SubSeq(res_list, 1, e - 1)>> \o Tokens(SubSeq(res_list, e + 1, Len(res_list)))

-----------------------------------------------------------------------------
patricia_init == [root |-> [key |-> <<>>, children |-> <<>>]]

Init ==
    /\ tree = patricia_init
    /\ last = [op |-> "init", key |-> <<>>, ret |-> 0, out |-> <<>>]
    /\ before = patricia_init
    /\ keys = {}
    /\ deleted = FALSE

Add(k) ==
    /\ NodeCount(tree.root) < MaxNodes
    /\ LET r == patricia_add(tree, k)
       IN  /\ tree' = r.tree
           /\ last' = [op |-> "add", key |-> k, ret |-> r.ret, out |-> <<>>]
           /\ keys' = IF r.ret = 0 THEN keys \cup {k} ELSE keys
    /\ before' = tree
    /\ UNCHANGED deleted

Delete(k) ==
    /\ LET r == patricia_delete(tree, k)
       IN  /\ tree' = r.tree
           /\ last' = [op |-> "delete", key |-> k, ret |-> r.ret, out |-> <<>>]
           /\ keys' = IF r.ret = 0 THEN {j \in keys : ~IsPrefix(k, j)} ELSE keys
           /\ deleted' = (deleted \/ r.ret = 0)
    /\ before' = tree

Lookup(k) ==
    /\ last' = [op |-> "lookup", key |-> k, ret |-> patricia_lookup(tree, k), out |-> <<>>]
    /\ before' = tree
    /\ UNCHANGED <<tree, keys, deleted>>

\* The caller's buffer is empty.
LookupPrefixFull(p) ==
    /\ LET r == patricia_lookup_prefix_full(tree, p, <<>>)
       IN  last' = [op |-> "lookup_prefix_full", key |-> p, ret |-> r.ret, out |-> r.out]
    /\ before' = tree
    /\ UNCHANGED <<tree, keys, deleted>>

\* The caller's buffer is empty.
LookupPrefixPartial(p) ==
    /\ LET r == patricia_lookup_prefix_partial(tree, p, <<>>)
       IN  last' = [op |-> "lookup_prefix_partial", key |-> p, ret |-> r.ret, out |-> r.out]
    /\ before' = tree
    /\ UNCHANGED <<tree, keys, deleted>>

\* The count starts at 0, as in patricia_print_stats.
GetKeyCount ==
    /\ last' = [op |-> "get_key_count", key |-> <<>>,
                ret |-> patricia_get_key_count(tree.root, 0), out |-> <<>>]
    /\ before' = tree
    /\ UNCHANGED <<tree, keys, deleted>>

Next ==
    \/ \E k \in Inputs : Add(k)
    \/ \E k \in Inputs : Delete(k)
    \/ \E k \in Inputs : Lookup(k)
    \/ \E p \in Inputs : LookupPrefixFull(p)
    \/ \E p \in Inputs : LookupPrefixPartial(p)
    \/ GetKeyCount

Spec == Init /\ [][Next]_vars

-----------------------------------------------------------------------------
(* What the claims speak of *)

Found(t, k) == patricia_lookup(t, k) = 1

\* The elements of a sequence.
Range(seq) == {seq[i] : i \in 1..Len(seq)}

\* The keys the nodes below node stand for: acc, the fragments from the root
\* down to node, followed by the fragments down to the node below.
RECURSIVE PathsBelow(_, _)
PathsBelow(node, acc) ==
    UNION { {acc \o c.key} \cup PathsBelow(c, acc \o c.key) : c \in Range(node.children) }

\* The same for the leaves of the subtree of node, node included; acc are the
\* fragments from the root down to the parent of node.
RECURSIVE LeafPaths(_, _)
LeafPaths(node, acc) ==
    IF node.children = <<>> THEN {acc \o node.key}
    ELSE UNION { LeafPaths(c, acc \o node.key) : c \in Range(node.children) }

StrictPrefix(p, s) == IsPrefix(p, s) /\ p # s

\* The tokens of the last call's buffer, as a set.
OutTokens == Range(Tokens(last.out))

-----------------------------------------------------------------------------
(* Claims *)

\* C1: when add(tree, k) returns success, lookup(tree, k) is true right after
\* it, and every key that lookup found before an add is still found after it.
C1_AddedKeyIsFound ==
    (last.op = "add" /\ last.ret = 0) =>
        /\ Found(tree, last.key)
        /\ \A j \in Keys : Found(before, j) => Found(tree, j)

\* "ab" was added to a tree that held "a", and both are found.
C1_Witness ==
    /\ last = [op |-> "add", key |-> <<97, 98>>, ret |-> 0, out |-> <<>>]
    /\ <<97>> \in keys
    /\ ~Found(before, <<97, 98>>)
    /\ Found(before, <<97>>)
    /\ Found(tree, <<97>>)
    /\ Found(tree, <<97, 98>>)

\* C2: delete(tree, k) of a key that lookup finds returns success, and after
\* it lookup finds neither k nor any key that k is a prefix of.
C2_DeleteRemovesFamily ==
    (last.op = "delete" /\ Found(before, last.key)) =>
        /\ last.ret = 0
        /\ \A j \in Keys : IsPrefix(last.key, j) => ~Found(tree, j)

\* "a" was deleted from a tree in which "a" and "ab" were found.
C2_Witness ==
    /\ last = [op |-> "delete", key |-> <<97>>, ret |-> 0, out |-> <<>>]
    /\ Found(before, <<97>>)
    /\ Found(before, <<97, 98>>)
    /\ <<97, 98>> \notin keys
    /\ ~Found(tree, <<97, 98>>)

\* C3: as long as nothing was deleted, lookup(tree, k) returns true exactly for
\* the keys that were added with success.
C3_FoundOnlyIfAdded ==
    (last.op = "lookup" /\ ~deleted) => (last.ret = 1 <=> last.key \in keys)

\* C4: every token lookup_prefix_full(tree, p, out) writes starts with p and is
\* the concatenation of the fragments from the root to a leaf of the subtree
\* of the node p resolves to.
C4_FullTokensAreLeafKeys ==
    (last.op = "lookup_prefix_full" /\ last.ret = 0) =>
        LET node  == patricia_lookup_node(tree, last.key)
            above == SubSeq(last.key, 1, Len(last.key) - Len(node.key))
        IN  \A token \in OutTokens :
                IsPrefix(last.key, token) /\ token \in LeafPaths(node, above)

\* C5: when a stored key starts with the non-empty p, lookup_prefix_full
\* returns success and writes every stored key that starts with p.
C5_FullFindsAllKeys ==
    (/\ last.op = "lookup_prefix_full"
     /\ last.key # <<>>
     /\ \E k \in keys : IsPrefix(last.key, k)) =>
        /\ last.ret = 0
        /\ \A k \in keys : IsPrefix(last.key, k) => k \in OutTokens

\* C6: for p ending in '/', every token lookup_prefix_partial(tree, p, out)
\* writes is p followed by a non-empty segment without a delimiter.
C6_PartialOneLevel ==
    (/\ last.op = "lookup_prefix_partial"
     /\ last.ret = 0
     /\ patricia_key_has_delimiter(last.key) = 1) =>
        \A token \in OutTokens :
            /\ StrictPrefix(last.key, token)
            /\ \A i \in (Len(last.key) + 1)..Len(token) : token[i] # Delimiter

\* C7: no token is written twice by one lookup_prefix_full or
\* lookup_prefix_partial call.
C7_NoDuplicateToken ==
    last.op \in {"lookup_prefix_full", "lookup_prefix_partial"} =>
        \A i, j \in 1..Len(Tokens(last.out)) :
            Tokens(last.out)[i] = Tokens(last.out)[j] => i = j

\* lookup_prefix_partial of "/" has written "/a" once and "/b" once, where
\* "/a" stands for the keys "/a/" and "/a/b".
C7_Witness ==
    /\ last.op = "lookup_prefix_partial"
    /\ last.key = <<47>>
    /\ Tokens(last.out) = << <<47, 97>>, <<47, 98>> >>
    /\ {<<47, 97, 47>>, <<47, 97, 47, 98>>, <<47, 98>>} \subseteq keys

\* C8: as long as nothing was deleted, key_count is the number of keys added.
C8_KeyCountIsNumberOfKeys ==
    (last.op = "get_key_count" /\ ~deleted) => last.ret = Cardinality(keys)

\* C9: delete(tree, k) reports not-found exactly when lookup(tree, k) is false
\* before it, which is when no node stands for k, and then leaves the tree as
\* it was.
C9_DeleteNotFound ==
    last.op = "delete" =>
        /\ last.ret = -1 <=> ~Found(before, last.key)
        /\ ~Found(before, last.key) <=> last.key \notin PathsBelow(before.root, <<>>)
        /\ last.ret = -1 => tree = before

\* delete of "a", which ends in the middle of the fragment "aa", was not found.
C9_Witness ==
    /\ last = [op |-> "delete", key |-> <<97>>, ret |-> -1, out |-> <<>>]
    /\ Found(before, <<97, 97>>)
    /\ tree = before

\* C10: add(tree, k) of a key some node stands for returns success and leaves
\* every node as it was, so that lookup and the enumerations give what they
\* gave before.
C10_AddIsIdempotent ==
    (last.op = "add" /\ last.key \in PathsBelow(before.root, <<>>)) =>
        /\ last.ret = 0
        /\ tree = before
        /\ Found(tree, last.key)
        /\ \A p \in Inputs :
              /\ patricia_lookup_prefix_full(tree, p, <<>>)
                    = patricia_lookup_prefix_full(before, p, <<>>)
              /\ patricia_lookup_prefix_partial(tree, p, <<>>)
                    = patricia_lookup_prefix_partial(before, p, <<>>)

\* "a" was added again to a tree where the node of "a" has the child "b".
C10_Witness ==
    /\ last = [op |-> "add", key |-> <<97>>, ret |-> 0, out |-> <<>>]
    /\ <<97>> \in keys
    /\ <<97>> \in PathsBelow(before.root, <<>>)
    /\ Found(before, <<97, 98>>)
    /\ tree = before

-----------------------------------------------------------------------------
(* Claims about the shape of the tree *)

\* The nodes of the subtree of node, node included.
RECURSIVE Nodes(_)
Nodes(node) == {node} \cup UNION {Nodes(c) : c \in Range(node.children)}

\* C11: in every node no two children have fragments with the same first
\* byte, no child's fragment is a prefix of the fragment of another child, and
\* the fragment of every node below the root is not empty.
C11_SiblingsDisjoint ==
    \A n \in Nodes(tree.root) :
        /\ \A i, j \in 1..Len(n.children) :
              i # j => /\ CharAt(n.children[i].key, 0) # CharAt(n.children[j].key, 0)
                       /\ ~IsPrefix(n.children[i].key, n.children[j].key)
        /\ \A c \in Range(n.children) : c.key # <<>>

\* After adds and a successful delete, the node "/" has the children "a/",
\* itself above "b", and "b".
C11_Witness ==
    /\ deleted
    /\ last.op = "add"
    /\ tree.root.children # before.root.children
    /\ \E n \in Nodes(tree.root) :
          /\ n.key = <<47>>
          /\ Len(n.children) = 2
          /\ n.children[1].key = <<97, 47>>
          /\ n.children[1].children # <<>>
          /\ n.children[2].key = <<98>>

\* C12: in every node the children are in strictly ascending order of their
\* fragments, as strcmp compares them.
C12_ChildrenAscending ==
    \A n \in Nodes(tree.root) :
        \A i \in 1..(Len(n.children) - 1) :
            strcmp(n.children[i].key, n.children[i + 1].key) < 0

\* "aa" was added to a tree that held "ab": the split has put the rest of the
\* new key, "a", before the rest of the old one, "b".
C12_Witness ==
    /\ last = [op |-> "add", key |-> <<97, 97>>, ret |-> 0, out |-> <<>>]
    /\ before.root.children = <<[key |-> <<97, 98>>, children |-> <<>>]>>
    /\ tree.root.children =
          << [key      |-> <<97>>,
              children |-> << [key |-> <<97>>, children |-> <<>>],
                              [key |-> <<98>>, children |-> <<>>] >>] >>

\* C13: every leaf other than the root stands for a stored key: the fragments
\* from the root to the leaf spell a key that was added and not removed since.
C13_LeavesAreStoredKeys ==
    \A c \in Range(tree.root.children) : LeafPaths(c, <<>>) \subseteq keys

\* TRUE iff the byte b occurs in s.
HasByte(s, b) == \E i \in 1..Len(s) : s[i] = b

\* C14: in a tree whose keys hold no delimiter, lookup_prefix_partial(tree, p,
\* out) of a p that resolves to a node writes a token for every leaf below
\* that node.
C14_PartialWritesEveryLeaf ==
    (/\ last.op = "lookup_prefix_partial"
     /\ last.ret = 0
     /\ \A k \in PathsBelow(tree.root, <<>>) : ~HasByte(k, Delimiter)) =>
        LET node  == patricia_lookup_node(tree, last.key)
            above == SubSeq(last.key, 1, Len(last.key) - Len(node.key))
        IN  /\ LeafPaths(node, above) \subseteq OutTokens
            /\ Len(Tokens(last.out)) = Cardinality(LeafPaths(node, above))

\* C15: a successful delete(tree, k) changes lookup(tree, j) for no j that
\* does not start with k, and leaves the nodes outside the subtree of k with
\* their fragments: the nodes after it stand for the strings the nodes stood
\* for before it, less those that start with k.
C15_DeleteFrame ==
    (last.op = "delete" /\ last.ret = 0) =>
        /\ \A j \in Inputs :
              ~IsPrefix(last.key, j) => (Found(tree, j) <=> Found(before, j))
        /\ PathsBelow(tree.root, <<>>)
              = {q \in PathsBelow(before.root, <<>>) : ~IsPrefix(last.key, q)}

\* "aa" was deleted from a tree that held "aa" and "ab": "ab" is still found,
\* and so is the node "a" above it.
C15_Witness ==
    /\ last = [op |-> "delete", key |-> <<97, 97>>, ret |-> 0, out |-> <<>>]
    /\ Found(before, <<97, 97>>)
    /\ Found(before, <<97, 98>>)
    /\ Found(tree, <<97, 98>>)
    /\ <<97>> \in PathsBelow(tree.root, <<>>)
    /\ ~Found(tree, <<97, 97>>)

====
